---- MODULE Spec2Model ----
(***************************************************************************)
(* A model of src/call.rs of tonos-cli: the transport-token codec          *)
(* (pack_message / unpack_message), the parameter coercion                 *)
(* (parse_params / build_json_from_params / parse_integer_param) and the   *)
(* control flow of generate_message and call_contract_with_msg.            *)
(*                                                                         *)
(* Strings and byte buffers are sequences of byte values 0..255.  The      *)
(* library calls the code makes (hex, std::str::from_utf8, serde_json)     *)
(* are modelled by what they compute on those bytes.                       *)
(***************************************************************************)
EXTENDS Integers, Sequences, FiniteSets, TLC

----------------------------------------------------------------------------
(* Characters.  A text literal is written as a tuple of one-character      *)
(* strings and turned into its ASCII bytes by B; the double quote and the  *)
(* backslash are written DQUOTE and BSLASH.                                *)

AsciiTable ==
  << " ", "!", "DQUOTE", "#", "$", "%", "&", "'", "(", ")", "*", "+", ",", "-",
     ".", "/", "0", "1", "2", "3", "4", "5", "6", "7", "8", "9", ":", ";",
     "<", "=", ">", "?", "@", "A", "B", "C", "D", "E", "F", "G", "H", "I",
     "J", "K", "L", "M", "N", "O", "P", "Q", "R", "S", "T", "U", "V", "W",
     "X", "Y", "Z", "[", "BSLASH", "]", "^", "_", "BTICK", "a", "b", "c", "d", "e",
     "f", "g", "h", "i", "j", "k", "l", "m", "n", "o", "p", "q", "r", "s",
     "t", "u", "v", "w", "x", "y", "z", "{", "|", "}", "~" >>

\* the ASCII code of each character of the table
OrdTable ==
  [c \in {AsciiTable[i] : i \in 1..Len(AsciiTable)} |->
     31 + (CHOOSE i \in 1..Len(AsciiTable) : AsciiTable[i] = c)]

Ord(c) == OrdTable[c]

\* a function on 1..n as the tuple of its values
Tuple(f) == f \o <<>>

B(s) == Tuple([i \in 1..Len(s) |-> Ord(s[i])])

IsDigit(c) == c >= 48 /\ c <= 57

RECURSIVE Concat(_)
Concat(ss) == IF ss = <<>> THEN <<>> ELSE Head(ss) \o Concat(Tail(ss))

----------------------------------------------------------------------------
(* Result<T, String> with the panic of an unwrap() as a third outcome.     *)
(* The error strings of the code are named by the failure kinds:           *)
(*   couldn't unpack message: ..        MalformedToken                     *)
(*   message is corrupted: ..           CorruptToken                       *)
(*   couldn't decode message: ..        DecodeError                        *)
(*   couldn't find k key in message     FieldMissing(k)                    *)
(*   failed to parse ABI: ..            SchemaError                        *)
(*   argument .. not found              MissingArgument(name, kind)        *)
(*   argument .. has no value           MissingArgumentValue(name, kind)   *)

Ok(v) == [kind |-> "Ok", val |-> v, err |-> <<>>]
Err(e) == [kind |-> "Err", val |-> <<>>, err |-> e]
Panic(where) == [kind |-> "Panic", val |-> <<>>, err |-> <<"panic", where>>]

None == [some |-> FALSE, v |-> <<>>]
Some(x) == [some |-> TRUE, v |-> x]

----------------------------------------------------------------------------
(* hex::encode / hex::decode                                               *)

HexDigits == B(<<"0","1","2","3","4","5","6","7","8","9","a","b","c","d","e","f">>)

HexEncode(bytes) ==
  Tuple([i \in 1..(2 * Len(bytes)) |->
           LET b == bytes[(i + 1) \div 2]
           IN  IF i % 2 = 1 THEN HexDigits[(b \div 16) + 1] ELSE HexDigits[(b % 16) + 1]])

\* the value of one hex character, -1 when it is none
HexVal(c) ==
  IF c >= 48 /\ c <= 57 THEN c - 48          \* 0 to 9
  ELSE IF c >= 97 /\ c <= 102 THEN c - 87    \* a to f
  ELSE IF c >= 65 /\ c <= 70 THEN c - 55     \* A to F
  ELSE -1

HexDecode(s) ==
  IF Len(s) % 2 # 0 THEN Err(<<"OddLength">>)
  ELSE IF \E i \in 1..Len(s) : HexVal(s[i]) < 0 THEN Err(<<"InvalidHexCharacter">>)
  ELSE Ok(Tuple([i \in 1..(Len(s) \div 2) |->
                   HexVal(s[2 * i - 1]) * 16 + HexVal(s[2 * i])]))

----------------------------------------------------------------------------
(* std::str::from_utf8: whether the bytes from index i on are UTF-8        *)

IsCont(b, i) == i <= Len(b) /\ b[i] >= 128 /\ b[i] <= 191

RECURSIVE Utf8ValidFrom(_, _)
Utf8ValidFrom(b, i) ==
  IF i > Len(b) THEN TRUE
  ELSE LET c == b[i] IN
    IF c < 128 THEN Utf8ValidFrom(b, i + 1)
    ELSE IF c >= 194 /\ c <= 223 THEN IsCont(b, i + 1) /\ Utf8ValidFrom(b, i + 2)
    ELSE IF c >= 224 /\ c <= 239 THEN
      /\ IsCont(b, i + 1) /\ IsCont(b, i + 2)
      /\ (c = 224 => b[i + 1] >= 160)
      /\ (c = 237 => b[i + 1] <= 159)
      /\ Utf8ValidFrom(b, i + 3)
    ELSE IF c >= 240 /\ c <= 244 THEN
      /\ IsCont(b, i + 1) /\ IsCont(b, i + 2) /\ IsCont(b, i + 3)
      /\ (c = 240 => b[i + 1] >= 144)
      /\ (c = 244 => b[i + 1] <= 143)
      /\ Utf8ValidFrom(b, i + 4)
    ELSE FALSE

FromUtf8(bytes) == IF Utf8ValidFrom(bytes, 1) THEN Ok(bytes) ELSE Err(<<"Utf8Error">>)

\* char::encode_utf8 of a code point (no surrogate)
EncodeUtf8(cp) ==
  IF cp < 128 THEN <<cp>>
  ELSE IF cp < 2048 THEN <<192 + (cp \div 64), 128 + (cp % 64)>>
  ELSE IF cp < 65536 THEN
    <<224 + (cp \div 4096), 128 + ((cp \div 64) % 64), 128 + (cp % 64)>>
  ELSE <<240 + (cp \div 262144), 128 + ((cp \div 4096) % 64),
         128 + ((cp \div 64) % 64), 128 + (cp % 64)>>

----------------------------------------------------------------------------
(* u64 and u32 values as little-endian 16-bit limbs: a u64 is four limbs,  *)
(* a u32 two.                                                              *)

Limb == 2^16

U64Zero == <<0, 0, 0, 0>>

\* u * 10 + d in u64, with the overflow the parser tests for
MulAdd10(u, d) ==
  LET t1 == u[1] * 10 + d
      t2 == u[2] * 10 + (t1 \div Limb)
      t3 == u[3] * 10 + (t2 \div Limb)
      t4 == u[4] * 10 + (t3 \div Limb)
  IN  [v |-> <<t1 % Limb, t2 % Limb, t3 % Limb, t4 % Limb>>,
       overflow |-> t4 \div Limb > 0]

\* `x as u32` of a u64: the low 32 bits
AsU32(u) == <<u[1], u[2]>>

\* a u32 widened to u64
U32ToU64(w) == <<w[1], w[2], 0, 0>>

DivMod10(u) ==
  LET a4 == u[4]
      a3 == (a4 % 10) * Limb + u[3]
      a2 == (a3 % 10) * Limb + u[2]
      a1 == (a2 % 10) * Limb + u[1]
  IN  [q |-> <<a1 \div 10, a2 \div 10, a3 \div 10, a4 \div 10>>, r |-> a1 % 10]

\* the decimal digits of a u64 (itoa)
RECURSIVE DecDigits(_)
DecDigits(u) ==
  LET dm == DivMod10(u)
  IN  IF dm.q = U64Zero THEN <<Ord("0") + dm.r>>
      ELSE Append(DecDigits(dm.q), Ord("0") + dm.r)

----------------------------------------------------------------------------
(* serde_json::Value.  An object is a BTreeMap: its entries <<key, value>> *)
(* are kept sorted by key, one entry per key.  A number is PosInt (u64),   *)
(* NegInt (its magnitude is kept) or Float (its value is never read by     *)
(* the code and is not kept).                                              *)

LitNull == B(<<"n", "u", "l", "l">>)
LitTrue == B(<<"t", "r", "u", "e">>)
LitFalse == B(<<"f", "a", "l", "s", "e">>)

JNull == [t |-> "null"]
JBool(b) == [t |-> "bool", b |-> b]
JStr(s) == [t |-> "str", s |-> s]
JNum(n, u) == [t |-> "num", n |-> n, u |-> u]
JArr(a) == [t |-> "arr", a |-> a]
JObj(o) == [t |-> "obj", o |-> o]

\* byte-wise order of two strings (the order of BTreeMap<String, _>)
LexLess(a, b) ==
  LET d == {i \in 1..(IF Len(a) <= Len(b) THEN Len(a) ELSE Len(b)) : a[i] # b[i]}
  IN  IF d = {} THEN Len(a) < Len(b)
      ELSE LET k == CHOOSE i \in d : \A j \in d : i <= j IN a[k] < b[k]

\* Map::insert
ObjInsert(o, k, v) ==
  LET lo == SelectSeq(o, LAMBDA e : LexLess(e[1], k))
      hi == SelectSeq(o, LAMBDA e : LexLess(k, e[1]))
  IN  lo \o << <<k, v>> >> \o hi

\* value[key] of a shared Value: Null when value is no object or has no such key
JIndex(v, key) ==
  IF v.t = "obj" /\ \E i \in 1..Len(v.o) : v.o[i][1] = key
  THEN v.o[CHOOSE i \in 1..Len(v.o) : v.o[i][1] = key][2]
  ELSE JNull

\* Value::as_str
AsStr(v) == IF v.t = "str" THEN Some(v.s) ELSE None

\* Value::as_u64
AsU64(v) == IF v.t = "num" /\ v.n = "PosInt" THEN Some(v.u) ELSE None

\* Option<u32> as a Value (Serialize for Option<u32>)
JOptU32(e) == IF e.some THEN JNum("PosInt", U32ToU64(e.v)) ELSE JNull

----------------------------------------------------------------------------
(* serde_json::to_string: the compact text of a Value                      *)

EscapeByte(c) ==
  IF c = Ord("DQUOTE") THEN B(<<"BSLASH", "DQUOTE">>)
  ELSE IF c = Ord("BSLASH") THEN B(<<"BSLASH", "BSLASH">>)
  ELSE IF c = 8 THEN B(<<"BSLASH", "b">>)
  ELSE IF c = 9 THEN B(<<"BSLASH", "t">>)
  ELSE IF c = 10 THEN B(<<"BSLASH", "n">>)
  ELSE IF c = 12 THEN B(<<"BSLASH", "f">>)
  ELSE IF c = 13 THEN B(<<"BSLASH", "r">>)
  ELSE IF c < 32 THEN
    B(<<"BSLASH", "u", "0", "0">>) \o <<HexDigits[(c \div 16) + 1], HexDigits[(c % 16) + 1]>>
  ELSE <<c>>

WriteStr(s) ==
  B(<<"DQUOTE">>) \o Concat([i \in 1..Len(s) |-> EscapeByte(s[i])]) \o B(<<"DQUOTE">>)

RECURSIVE ToJsonString(_)
ToJsonString(v) ==
  CASE v.t = "null" -> LitNull
    [] v.t = "bool" -> IF v.b THEN LitTrue ELSE LitFalse
    [] v.t = "num" /\ v.n = "PosInt" -> DecDigits(v.u)
    [] v.t = "num" /\ v.n = "NegInt" -> B(<<"-">>) \o DecDigits(v.u)
    [] v.t = "str" -> WriteStr(v.s)
    [] v.t = "arr" ->
         B(<<"[">>)
         \o Concat([i \in 1..Len(v.a) |->
                      (IF i > 1 THEN B(<<",">>) ELSE <<>>) \o ToJsonString(v.a[i])])
         \o B(<<"]">>)
    [] v.t = "obj" ->
         B(<<"{">>)
         \o Concat([i \in 1..Len(v.o) |->
                      (IF i > 1 THEN B(<<",">>) ELSE <<>>)
                      \o WriteStr(v.o[i][1]) \o B(<<":">>) \o ToJsonString(v.o[i][2])])
         \o B(<<"}">>)

----------------------------------------------------------------------------
(* serde_json::from_str: a recursive-descent parse of the text s.  Every   *)
(* parser takes the index to read at and returns [ok, v, i]: whether it    *)
(* succeeded, the value, and the index after it.                           *)

PFail == [ok |-> FALSE, v |-> JNull, i |-> 0]
POk(v, i) == [ok |-> TRUE, v |-> v, i |-> i]

At(s, i, c) == i <= Len(s) /\ s[i] = Ord(c)

IsWs(c) == c = 32 \/ c = 9 \/ c = 10 \/ c = 13

RECURSIVE SkipWs(_, _)
SkipWs(s, i) == IF i <= Len(s) /\ IsWs(s[i]) THEN SkipWs(s, i + 1) ELSE i

RECURSIVE SkipDigits(_, _)
SkipDigits(s, i) == IF i <= Len(s) /\ IsDigit(s[i]) THEN SkipDigits(s, i + 1) ELSE i

\* whether the text w stands at index i
Lit(s, i, w) == i + Len(w) - 1 <= Len(s) /\ \A k \in 1..Len(w) : s[i + k - 1] = w[k]

\* the four hex digits of a \u escape at index i, -1 when they are not four hex digits
Hex4(s, i) ==
  IF i + 3 <= Len(s) /\ \A k \in 0..3 : HexVal(s[i + k]) >= 0
  THEN LET h == [k \in 0..3 |-> HexVal(s[i + k])]
       IN  h[0] * 4096 + h[1] * 256 + h[2] * 16 + h[3]
  ELSE -1

\* the byte a one-character escape stands for, -1 when the character is none
SimpleEscape(e) ==
  IF e = Ord("DQUOTE") \/ e = Ord("BSLASH") \/ e = Ord("/") THEN e
  ELSE IF e = Ord("b") THEN 8
  ELSE IF e = Ord("f") THEN 12
  ELSE IF e = Ord("n") THEN 10
  ELSE IF e = Ord("r") THEN 13
  ELSE IF e = Ord("t") THEN 9
  ELSE -1

IsHighSurrogate(n) == n >= 55296 /\ n <= 56319
IsLowSurrogate(n) == n >= 56320 /\ n <= 57343

RECURSIVE ParseStr(_, _, _), ParseEscape(_, _, _), ParseSimple(_, _, _, _),
          ParseUnicode(_, _, _, _), ParsePair(_, _, _, _, _)

\* a string, read from the index after its opening quote
ParseStr(s, i, acc) ==
  IF i > Len(s) THEN PFail
  ELSE IF s[i] = Ord("DQUOTE") THEN POk(acc, i + 1)
  ELSE IF s[i] = Ord("BSLASH") THEN ParseEscape(s, i, acc)
  ELSE IF s[i] < 32 THEN PFail
  ELSE ParseStr(s, i + 1, Append(acc, s[i]))

\* an escape, read at its backslash
ParseEscape(s, i, acc) ==
  IF i + 1 > Len(s) THEN PFail
  ELSE IF s[i + 1] = Ord("u") THEN ParseUnicode(s, i, acc, Hex4(s, i + 2))
  ELSE ParseSimple(s, i, acc, SimpleEscape(s[i + 1]))

ParseSimple(s, i, acc, b) ==
  IF b >= 0 THEN ParseStr(s, i + 2, Append(acc, b)) ELSE PFail

\* a \u escape of the code unit n1: a lone surrogate is an error, a high
\* surrogate needs the \u escape of a low one after it
ParseUnicode(s, i, acc, n1) ==
  IF n1 < 0 \/ IsLowSurrogate(n1) THEN PFail
  ELSE IF IsHighSurrogate(n1) THEN
    ParsePair(s, i, acc, n1,
              IF At(s, i + 6, "BSLASH") /\ At(s, i + 7, "u") THEN Hex4(s, i + 8) ELSE -1)
  ELSE ParseStr(s, i + 6, acc \o EncodeUtf8(n1))

ParsePair(s, i, acc, n1, n2) ==
  IF IsLowSurrogate(n2)
  THEN ParseStr(s, i + 12, acc \o EncodeUtf8(65536 + (n1 - 55296) * 1024 + (n2 - 56320)))
  ELSE PFail

\* the digits of an integer part, accumulated in u64; past u64 the number
\* is parsed as a float
RECURSIVE ParseDigits(_, _, _), ParseDigit(_, _, _)
ParseDigits(s, i, u) ==
  IF i <= Len(s) /\ IsDigit(s[i]) THEN ParseDigit(s, i, MulAdd10(u, s[i] - Ord("0")))
  ELSE [u |-> u, float |-> FALSE, i |-> i]

ParseDigit(s, i, m) ==
  IF m.overflow THEN [u |-> U64Zero, float |-> TRUE, i |-> SkipDigits(s, i)]
  ELSE ParseDigits(s, i + 1, m.v)

\* i64::MIN has the magnitude 2^63
FitsI64(u) == u[4] < 2^15 \/ u = <<0, 0, 0, 2^15>>

\* a number without fraction and exponent, ending before index i
NumInt(i, neg, u, float) ==
  IF float THEN POk(JNum("Float", U64Zero), i)
  ELSE IF ~neg THEN POk(JNum("PosInt", u), i)
  ELSE IF u # U64Zero /\ FitsI64(u) THEN POk(JNum("NegInt", u), i)
  ELSE POk(JNum("Float", U64Zero), i)

\* the digits of an exponent from index k to before index l: at least one
NumExpEnd(k, l) == IF l = k THEN PFail ELSE POk(JNum("Float", U64Zero), l)

\* the index after the sign of an exponent
ExpStart(s, k) == IF At(s, k, "+") \/ At(s, k, "-") THEN k + 1 ELSE k

NumExpDigits(s, k) == NumExpEnd(k, SkipDigits(s, k))

\* the exponent, if any, at index j
NumExp(s, j, neg, u, float) ==
  IF At(s, j, "e") \/ At(s, j, "E") THEN NumExpDigits(s, ExpStart(s, j + 1))
  ELSE NumInt(j, neg, u, float)

\* the digits of a fraction from index f to before index j: at least one
NumFracEnd(s, f, j) == IF j = f THEN PFail ELSE NumExp(s, j, FALSE, U64Zero, TRUE)

\* what follows the integer part: a fraction, an exponent, or nothing
ParseNumTail(s, i, neg, u, float) ==
  IF At(s, i, ".") THEN NumFracEnd(s, i + 1, SkipDigits(s, i + 1))
  ELSE NumExp(s, i, neg, u, float)

ParseNumAfter(s, neg, d) == ParseNumTail(s, d.i, neg, d.u, d.float)

\* the integer part at index j, after the sign
ParseNumAt(s, j, neg) ==
  IF j > Len(s) \/ ~IsDigit(s[j]) THEN PFail
  ELSE IF s[j] = Ord("0") THEN
    IF j + 1 <= Len(s) /\ IsDigit(s[j + 1]) THEN PFail
    ELSE ParseNumTail(s, j + 1, neg, U64Zero, FALSE)
  ELSE ParseNumAfter(s, neg, ParseDigits(s, j, U64Zero))

ParseNum(s, i) ==
  IF At(s, i, "-") THEN ParseNumAt(s, i + 1, TRUE) ELSE ParseNumAt(s, i, FALSE)

StrValue(r) == IF r.ok THEN POk(JStr(r.v), r.i) ELSE PFail

RECURSIVE ParseValue(_, _), ParseValueAt(_, _), ParseArr(_, _), ParseElem(_, _, _),
          ParseElems(_, _, _), ParseObj(_, _), ParseMember(_, _, _),
          ParseColon(_, _, _), ParseMemberValue(_, _, _, _),
          ParseMemberEnd(_, _, _, _), ParseMembers(_, _, _)

ParseValue(s, i) == ParseValueAt(s, SkipWs(s, i))

ParseValueAt(s, j) ==
  IF j > Len(s) THEN PFail
  ELSE IF Lit(s, j, LitNull) THEN POk(JNull, j + 4)
  ELSE IF Lit(s, j, LitTrue) THEN POk(JBool(TRUE), j + 4)
  ELSE IF Lit(s, j, LitFalse) THEN POk(JBool(FALSE), j + 5)
  ELSE IF At(s, j, "DQUOTE") THEN StrValue(ParseStr(s, j + 1, <<>>))
  ELSE IF At(s, j, "-") \/ IsDigit(s[j]) THEN ParseNum(s, j)
  ELSE IF At(s, j, "[") THEN ParseArr(s, SkipWs(s, j + 1))
  ELSE IF At(s, j, "{") THEN ParseObj(s, SkipWs(s, j + 1))
  ELSE PFail

\* an array, read after its bracket
ParseArr(s, k) ==
  IF At(s, k, "]") THEN POk(JArr(<<>>), k + 1) ELSE ParseElem(s, <<>>, ParseValue(s, k))

\* the element e read, then the rest of the array
ParseElem(s, acc, e) ==
  IF e.ok THEN ParseElems(s, SkipWs(s, e.i), Append(acc, e.v)) ELSE PFail

\* after an element: the end of the array, or a comma and an element
ParseElems(s, j, acc) ==
  IF At(s, j, "]") THEN POk(JArr(acc), j + 1)
  ELSE IF At(s, j, ",") THEN ParseElem(s, acc, ParseValue(s, j + 1))
  ELSE PFail

\* an object, read after its brace
ParseObj(s, k) ==
  IF At(s, k, "}") THEN POk(JObj(<<>>), k + 1) ELSE ParseMember(s, k, <<>>)

\* a member, read at its key
ParseMember(s, j, acc) ==
  IF At(s, j, "DQUOTE") THEN ParseColon(s, acc, ParseStr(s, j + 1, <<>>)) ELSE PFail

ParseColon(s, acc, k) ==
  IF k.ok THEN ParseMemberValue(s, acc, k.v, SkipWs(s, k.i)) ELSE PFail

ParseMemberValue(s, acc, key, c) ==
  IF At(s, c, ":") THEN ParseMemberEnd(s, acc, key, ParseValue(s, c + 1)) ELSE PFail

\* the value e of the member read: a key read twice keeps its last value
ParseMemberEnd(s, acc, key, e) ==
  IF e.ok THEN ParseMembers(s, SkipWs(s, e.i), ObjInsert(acc, key, e.v)) ELSE PFail

\* after a member: the end of the object, or a comma and a member
ParseMembers(s, n, acc) ==
  IF At(s, n, "}") THEN POk(JObj(acc), n + 1)
  ELSE IF At(s, n, ",") THEN ParseMember(s, SkipWs(s, n + 1), acc)
  ELSE PFail

\* one value, then nothing but white space
FromStrEnd(s, r) ==
  IF r.ok /\ SkipWs(s, r.i) = Len(s) + 1 THEN Ok(r.v) ELSE Err(<<"SyntaxError">>)

\* serde_json::from_str
FromStr(s) == FromStrEnd(s, ParseValue(s, 1))

----------------------------------------------------------------------------
(* EncodedMessage and the transport token                                  *)

EncodedMessage(id, body, expire) ==
  [message_id |-> id, message_body |-> body, expire |-> expire]

KeyMsg == B(<<"m", "s", "g">>)
KeyMethod == B(<<"m", "e", "t", "h", "o", "d">>)
KeyMessageId == B(<<"m", "e", "s", "s", "a", "g", "e", "_", "i", "d">>)
KeyMessageBody == B(<<"m", "e", "s", "s", "a", "g", "e", "_", "b", "o", "d", "y">>)
KeyExpire == B(<<"e", "x", "p", "i", "r", "e">>)

\* the json!({ "msg": {..}, "method": method }) of pack_message
\* a variant that leaves expire out of the record
PackJsonNoExpire(m, meth) ==
  LET inner == ObjInsert(ObjInsert(<<>>,
                 KeyMessageId, JStr(m.message_id)),
                 KeyMessageBody, JStr(HexEncode(m.message_body)))
  IN  JObj(ObjInsert(ObjInsert(<<>>, KeyMsg, JObj(inner)), KeyMethod, JStr(meth)))

PackJson(m, meth) ==
  LET inner == ObjInsert(ObjInsert(ObjInsert(<<>>,
                 KeyMessageId, JStr(m.message_id)),
                 KeyMessageBody, JStr(HexEncode(m.message_body))),
                 KeyExpire, JOptU32(m.expire))
  IN  JObj(ObjInsert(ObjInsert(<<>>, KeyMsg, JObj(inner)), KeyMethod, JStr(meth)))

pack_message(m, meth) == HexEncode(ToJsonString(PackJson(m, meth)))

\* json_msg["msg"]["expire"].as_u64().map(|x| x as u32)
\* a variant with a checked conversion: nothing when the value exceeds u32
MapTryU32(e) == IF e.some /\ e.v[3] = 0 /\ e.v[4] = 0 THEN Some(AsU32(e.v)) ELSE None

MapAsU32(e) == IF e.some THEN Some(AsU32(e.v)) ELSE None

ExpireOf(json_msg) == MapAsU32(AsU64(JIndex(JIndex(json_msg, KeyMsg), KeyExpire)))

\* Result::unwrap of hex::decode(message_body)
UnwrapBody(d) == IF d.kind = "Ok" THEN d ELSE Panic("hex::decode(message_body).unwrap()")

\* hex::decode(message_body).unwrap()
BodyOf(message_body) == UnwrapBody(HexDecode(message_body))

\* the last step of unpack_message: the message with its decoded body
UnpackBody(json_msg, meth, id, b) ==
  IF b.kind # "Ok" THEN b
  ELSE Ok(<<EncodedMessage(id, b.val, ExpireOf(json_msg)), meth>>)

\* a variant that reads message_id before method
UnpackStrsIdFirst(json_msg, meth, id, body) ==
  IF ~id.some THEN Err(<<"FieldMissing", "message_id">>)
  ELSE IF ~meth.some THEN Err(<<"FieldMissing", "method">>)
  ELSE IF ~body.some THEN Err(<<"FieldMissing", "message_body">>)
  ELSE UnpackBody(json_msg, meth.v, id.v, BodyOf(body.v))

\* the field extraction of unpack_message, from the three fields as_str gave
UnpackStrs(json_msg, meth, id, body) ==
  IF ~meth.some THEN Err(<<"FieldMissing", "method">>)
  ELSE IF ~id.some THEN Err(<<"FieldMissing", "message_id">>)
  ELSE IF ~body.some THEN Err(<<"FieldMissing", "message_body">>)
  ELSE UnpackBody(json_msg, meth.v, id.v, BodyOf(body.v))

UnpackFields(json_msg) ==
  UnpackStrs(json_msg,
             AsStr(JIndex(json_msg, KeyMethod)),
             AsStr(JIndex(JIndex(json_msg, KeyMsg), KeyMessageId)),
             AsStr(JIndex(JIndex(json_msg, KeyMsg), KeyMessageBody)))

\* serde_json::from_str(str_msg) and on
UnpackJson(json_msg) ==
  IF json_msg.kind # "Ok" THEN Err(<<"DecodeError">>) ELSE UnpackFields(json_msg.val)

\* std::str::from_utf8(&bytes) and on
UnpackText(text) ==
  IF text.kind # "Ok" THEN Err(<<"CorruptToken">>) ELSE UnpackJson(FromStr(text.val))

\* hex::decode(str_msg) and on
UnpackBytes(bytes) ==
  IF bytes.kind # "Ok" THEN Err(<<"MalformedToken">>) ELSE UnpackText(FromUtf8(bytes.val))

unpack_message(token) == UnpackBytes(HexDecode(token))

----------------------------------------------------------------------------
(* The ABI as ton_abi::Contract::load returns it: a failure, or the        *)
(* functions by name, each with its ordered input parameters.  A kind is   *)
(* a ParamType; an array carries the kind of its elements.                 *)

KUint(n) == [k |-> "Uint", size |-> n, elem |-> "", esize |-> 0]
KInt(n) == [k |-> "Int", size |-> n, elem |-> "", esize |-> 0]
KAddress == [k |-> "Address", size |-> 0, elem |-> "", esize |-> 0]
KBool == [k |-> "Bool", size |-> 0, elem |-> "", esize |-> 0]
KArray(kind) == [k |-> "Array", size |-> 0, elem |-> kind.k, esize |-> kind.size]

Param(name, kind) == [name |-> name, kind |-> kind]

----------------------------------------------------------------------------
(* str helpers of the standard library                                     *)

RECURSIVE TrimStartMatches(_, _)
TrimStartMatches(s, c) ==
  IF s # <<>> /\ Head(s) = c THEN TrimStartMatches(Tail(s), c) ELSE s

RECURSIVE TrimEndMatches(_, _)
TrimEndMatches(s, c) ==
  IF s # <<>> /\ s[Len(s)] = c THEN TrimEndMatches(SubSeq(s, 1, Len(s) - 1), c) ELSE s

TrimMatches(s, c) == TrimEndMatches(TrimStartMatches(s, c), c)

EndsWith(s, c) == s # <<>> /\ s[Len(s)] = c

\* str::split on a set of delimiter characters: every fragment, the empty ones too
RECURSIVE SplitOn(_, _, _)
SplitOn(s, delims, cur) ==
  IF s = <<>> THEN <<cur>>
  ELSE IF Head(s) \in delims THEN <<cur>> \o SplitOn(Tail(s), delims, <<>>)
  ELSE SplitOn(Tail(s), delims, Append(cur, Head(s)))

----------------------------------------------------------------------------
(* convert::convert_token: a decimal amount of tokens to base units, a     *)
(* fixed-point conversion with TokenDecimals fractional digits.            *)

TokenDecimals == 9

IsDigits(s) == \A i \in 1..Len(s) : IsDigit(s[i])

convert_token(amount) ==
  LET parts == SplitOn(amount, {Ord(".")}, <<>>)
      int   == parts[1]
      frac  == IF Len(parts) = 2 THEN parts[2] ELSE <<>>
  IN  IF /\ Len(parts) <= 2
         /\ int # <<>> /\ IsDigits(int)
         /\ IsDigits(frac) /\ Len(frac) <= TokenDecimals
      THEN Ok(int \o frac \o [i \in 1..(TokenDecimals - Len(frac)) |-> Ord("0")])
      ELSE Err(<<"ConversionError">>)

----------------------------------------------------------------------------
(* Parameter coercion                                                      *)

parse_integer_param(value) ==
  LET v == TrimMatches(value, Ord("DQUOTE"))
  IN  IF EndsWith(v, Ord("T")) THEN convert_token(TrimEndMatches(v, Ord("T")))
      ELSE Ok(v)

\* the index of the first token that is the parameter name once its leading
\* dashes are stripped, 0 when there is none (iter.find)
FindParam(params_vec, name) ==
  LET hits == {i \in 1..Len(params_vec) : TrimStartMatches(params_vec[i], Ord("-")) = name}
  IN  IF hits = {} THEN 0 ELSE CHOOSE i \in hits : \A j \in hits : i <= j

ArrayDelims == {Ord(","), Ord("["), Ord("]")}

\* a variant that keeps the empty fragments
ArrayItemsAll(value) == SplitOn(value, ArrayDelims, <<>>)

\* the fragments of an array value that are coerced: the non-empty ones
ArrayItems(value) == SelectSeq(SplitOn(value, ArrayDelims, <<>>), LAMBDA f : f # <<>>)

\* the coercion of the fragments in order, stopping at the first failure
RECURSIVE CoerceItems(_, _)
CoerceItems(items, acc) ==
  IF items = <<>> THEN Ok(JArr(acc))
  ELSE LET r == parse_integer_param(Head(items))
       IN  IF r.kind # "Ok" THEN r ELSE CoerceItems(Tail(items), Append(acc, JStr(r.val)))

\* the match on input.kind
CoerceValue(kind, value) ==
  IF kind.k = "Uint" \/ kind.k = "Int" THEN
    LET r == parse_integer_param(value)
    IN  IF r.kind # "Ok" THEN r ELSE Ok(JStr(r.val))
  ELSE IF kind.k = "Array" /\ kind.elem = "Uint" THEN CoerceItems(ArrayItems(value), <<>>)
  ELSE Ok(JStr(value))

\* a variant that inserts the value under the token that was found
RECURSIVE CoerceInputsTokenKey(_, _, _)
CoerceInputsTokenKey(params_vec, inputs, params_json) ==
  IF inputs = <<>> THEN Ok(JObj(params_json))
  ELSE LET input == Head(inputs)
           at    == FindParam(params_vec, input.name)
       IN  IF at = 0 THEN Err(<<"MissingArgument", input.name, input.kind>>)
           ELSE IF at = Len(params_vec)
             THEN Err(<<"MissingArgumentValue", input.name, input.kind>>)
           ELSE LET value == CoerceValue(input.kind, params_vec[at + 1])
                IN  IF value.kind # "Ok" THEN value
                    ELSE CoerceInputsTokenKey(params_vec, Tail(inputs),
                                              ObjInsert(params_json, params_vec[at], value.val))

\* a variant that skips a parameter no token names
RECURSIVE CoerceInputsSkip(_, _, _)
CoerceInputsSkip(params_vec, inputs, params_json) ==
  IF inputs = <<>> THEN Ok(JObj(params_json))
  ELSE LET input == Head(inputs)
           at    == FindParam(params_vec, input.name)
       IN  IF at = 0 THEN CoerceInputsSkip(params_vec, Tail(inputs), params_json)
           ELSE IF at = Len(params_vec)
             THEN Err(<<"MissingArgumentValue", input.name, input.kind>>)
           ELSE LET value == CoerceValue(input.kind, params_vec[at + 1])
                IN  IF value.kind # "Ok" THEN value
                    ELSE CoerceInputsSkip(params_vec, Tail(inputs),
                                          ObjInsert(params_json, input.name, value.val))

\* the loop over the inputs: params_json so far, the inputs left
RECURSIVE CoerceInputs(_, _, _)
CoerceInputs(params_vec, inputs, params_json) ==
  IF inputs = <<>> THEN Ok(JObj(params_json))
  ELSE LET input == Head(inputs)
           at    == FindParam(params_vec, input.name)
       IN  IF at = 0 THEN Err(<<"MissingArgument", input.name, input.kind>>)
           ELSE IF at = Len(params_vec)
             THEN Err(<<"MissingArgumentValue", input.name, input.kind>>)
           ELSE LET value == CoerceValue(input.kind, params_vec[at + 1])
                IN  IF value.kind # "Ok" THEN value
                    ELSE CoerceInputs(params_vec, Tail(inputs),
                                      ObjInsert(params_json, input.name, value.val))

\* functions.get(method).unwrap()
GetFunction(functions, method) ==
  IF \E f \in functions : f.name = method
  THEN Ok(CHOOSE f \in functions : f.name = method)
  ELSE Panic("functions.get(method).unwrap()")

build_json_from_params(params_vec, abi, method) ==
  IF abi.kind # "Ok" THEN Err(<<"SchemaError">>)
  ELSE LET func_obj == GetFunction(abi.val, method)
       IN  IF func_obj.kind # "Ok" THEN func_obj
           ELSE LET params_json == CoerceInputs(params_vec, func_obj.val.inputs, <<>>)
                IN  IF params_json.kind # "Ok" THEN params_json
                    ELSE Ok(ToJsonString(params_json.val))

parse_params(params_vec, abi, method) ==
  IF Len(params_vec) = 1 THEN Ok(params_vec[1])
  ELSE build_json_from_params(params_vec, abi, method)

----------------------------------------------------------------------------
(* Bounds and input sets                                                   *)

MaxBodyLen == 2
MaxArgs == 3

SeqsUpTo(S, n) == UNION { {Tuple(f) : f \in [1..k -> S]} : k \in 0..n }

U32Max == <<Limb - 1, Limb - 1>>

MessageIds ==
  { <<>>, B(<<"a", "1">>), <<Ord("DQUOTE"), Ord("BSLASH"), 10>>, <<195, 169, 1>> }

Bodies == SeqsUpTo({0, 171, 255}, MaxBodyLen)

Expires == { None, Some(<<0, 0>>), Some(<<1, 1>>), Some(U32Max) }

Envelopes ==
  { EncodedMessage(id, body, e) : id \in MessageIds, body \in Bodies, e \in Expires }

MethodF == B(<<"f">>)
MethodG == B(<<"g">>)
MethodH == B(<<"h">>)
MethodK == B(<<"k">>)
MethodAbsent == B(<<"n", "o", "p", "e">>)
MethodOdd == <<Ord("s"), Ord("DQUOTE"), 9>>

NameX == B(<<"x">>)
NameY == B(<<"y">>)

\* the contract of the runs: f(uint128 x), g(int64 y, uint256[] x),
\* h(int8[] x, address y), k(address[] x, bool y)
AbiFunctions ==
  { [name |-> MethodF, inputs |-> <<Param(NameX, KUint(128))>>],
    [name |-> MethodG, inputs |-> <<Param(NameY, KInt(64)), Param(NameX, KArray(KUint(256)))>>],
    [name |-> MethodH, inputs |-> <<Param(NameX, KArray(KInt(8))), Param(NameY, KAddress)>>],
    [name |-> MethodK, inputs |-> <<Param(NameX, KArray(KAddress)), Param(NameY, KBool)>>] }

Abis == { Ok(AbiFunctions), Err(<<"AbiParseError">>) }

ArgX == B(<<"-", "-", "x">>)
ArgY == B(<<"-", "-", "y">>)
ArgZ == B(<<"-", "-", "z">>)

\* the tokens of the raw argument lists of every shape
ShapeTokens == { ArgX, ArgY, ArgZ, NameX, B(<<"5", "T">>), B(<<"[", "1", ",", "2", "]">>) }

\* the value strings tried in the lists  --x v  and  --y w --x v
Values ==
  { B(<<"5", "T">>), B(<<"5", "T", "T">>), B(<<"DQUOTE", "7", "DQUOTE">>),
    B(<<"DQUOTE", "1", ".", "5", "T", "DQUOTE">>), B(<<"x", "T">>), B(<<"T">>),
    B(<<"1", "2", "3", "4", "5", "6", "7", "8", "9", "0", "1", "2", "3", "4", "5", "6", "7", "8", "9", "0", "1">>),
    B(<<"[", "1", ",", "2", ",", "3", "]">>), B(<<"1", ",", "2", ",", "3">>),
    B(<<"[", "1", ",", ",", "2", "T", "]", "]">>), B(<<"[", "1", ",", "x", "T", "]">>),
    B(<<"[", "DQUOTE", "4", "DQUOTE", ",", "-", "3", "]">>), <<>> }

YValues == { B(<<"-", "8">>), B(<<"1", ",", "2">>), B(<<"2", "T">>) }

ArgLists ==
  SeqsUpTo(ShapeTokens, MaxArgs)
  \cup { <<ArgX, v>> : v \in Values }
  \cup { <<ArgY, w, ArgX, v>> : w \in YValues, v \in Values }

----------------------------------------------------------------------------
(* The tokens given to call_contract_with_msg.  A token case records how   *)
(* the token is built: its class (what the token is the hex of) and, for   *)
(* a record, the text of each member, with whether the member is a string  *)
(* (str), and for message_body whether that string is hex (hex) of which   *)
(* bytes, and for expire whether the text is a non-negative integer        *)
(* literal (int).                                                          *)

Q(t) == B(<<"DQUOTE">>) \o t \o B(<<"DQUOTE">>)

Frag(text, str, v) == [p |-> TRUE, text |-> text, str |-> str, v |-> v, hex |-> FALSE, int |-> FALSE]
Absent == [p |-> FALSE, text |-> <<>>, str |-> FALSE, v |-> <<>>, hex |-> FALSE, int |-> FALSE]

MethodFrags ==
  { Absent, Frag(Q(MethodF), TRUE, MethodF), Frag(B(<<"5">>), FALSE, <<>>),
    Frag(LitNull, FALSE, <<>>) }

IdFrags == { Absent, Frag(Q(B(<<"a", "1">>)), TRUE, B(<<"a", "1">>)), Frag(B(<<"7">>), FALSE, <<>>) }

HexFrag(text, v) == [Frag(Q(text), TRUE, v) EXCEPT !.hex = TRUE]

BodyFrags ==
  { Absent,
    HexFrag(B(<<"0", "0", "f", "f">>), <<0, 255>>),
    HexFrag(B(<<"A", "b">>), <<171>>),
    HexFrag(<<>>, <<>>),
    Frag(Q(B(<<"z", "z">>)), TRUE, <<>>),
    Frag(Q(B(<<"0">>)), TRUE, <<>>),
    Frag(LitTrue, FALSE, <<>>) }

IntFrag(digits) == [Frag(digits, FALSE, <<>>) EXCEPT !.int = TRUE]

ExpireFrags ==
  { Absent,
    Frag(LitNull, FALSE, <<>>),
    Frag(B(<<"-", "1">>), FALSE, <<>>),
    Frag(B(<<"1", ".", "5">>), FALSE, <<>>),
    Frag(B(<<"1", "e", "2">>), FALSE, <<>>),
    Frag(Q(B(<<"7">>)), TRUE, B(<<"7">>)),
    IntFrag(B(<<"0">>)),
    IntFrag(B(<<"1", "6", "0", "0", "0", "0", "0", "0", "0", "0">>)),
    IntFrag(B(<<"4", "2", "9", "4", "9", "6", "7", "2", "9", "5">>)),
    IntFrag(B(<<"4", "2", "9", "4", "9", "6", "7", "2", "9", "6">>)),
    IntFrag(B(<<"1", "8", "4", "4", "6", "7", "4", "4", "0", "7", "3", "7", "0", "9", "5", "5", "1", "6", "1", "5">>)),
    IntFrag(B(<<"1", "8", "4", "4", "6", "7", "4", "4", "0", "7", "3", "7", "0", "9", "5", "5", "1", "6", "1", "6">>)),
    IntFrag(B(<<"1", "0", "0", "0", "0", "0", "0", "0", "0", "0", "0", "0", "0", "0", "0", "0", "0", "0", "0", "0", "7", "7">>)) }

RECURSIVE Join(_, _)
Join(parts, sep) ==
  IF parts = <<>> THEN <<>>
  ELSE IF Len(parts) = 1 THEN parts[1]
  ELSE parts[1] \o sep \o Join(Tail(parts), sep)

Member(key, frag) == IF frag.p THEN << Q(key) \o B(<<":", " ">>) \o frag.text >> ELSE <<>>

\* the text of a record: msg (an object, a number, or absent) before method
RecordText(msgshape, m, id, body, exp) ==
  LET inner == Member(KeyMessageId, id) \o Member(KeyMessageBody, body) \o Member(KeyExpire, exp)
      msg   == IF msgshape = "object"
                 THEN << Q(KeyMsg) \o B(<<":", "{">>) \o Join(inner, B(<<",">>)) \o B(<<"}">>) >>
               ELSE IF msgshape = "number" THEN << Q(KeyMsg) \o B(<<":", "5">>) >>
               ELSE <<>>
  IN  B(<<"{">>) \o Join(msg \o Member(KeyMethod, m), B(<<",", " ">>)) \o B(<<"}", " ">>)

TokenCase(class, token, msgshape, m, id, body, exp) ==
  [class |-> class, token |-> token, msgshape |-> msgshape,
   m |-> m, id |-> id, body |-> body, exp |-> exp]

RawCase(class, token) == TokenCase(class, token, "absent", Absent, Absent, Absent, Absent)

RecordCase(msgshape, m, id, body, exp) ==
  TokenCase("record", HexEncode(RecordText(msgshape, m, id, body, exp)), msgshape, m, id, body, exp)

\* tokens that are no hex
NonHexTokens ==
  { B(<<"n", "o", "t", "-", "v", "a", "l", "i", "d", "-", "h", "e", "x", "!">>),
    B(<<"7", "b", "7">>), <<195, 169>>, B(<<"7", "b", " ", "7", "d">>) }

\* byte strings that are no UTF-8
NonUtf8Bytes == { <<255>>, <<123, 195>>, <<237, 160, 128>>, <<192, 128>> }

\* texts that are no JSON
NonJsonTexts ==
  { B(<<"n", "o", "t", " ", "j", "s", "o", "n">>), <<>>, B(<<"{">>),
    B(<<"{", "}", "x">>), B(<<"[", "1", ",", "]">>), B(<<"0", "1">>),
    Q(<<10>>), B(<<"{", "m", ":", "1", "}">>) }

\* JSON texts that are no object
NonObjectTexts == { B(<<"5">>), B(<<"[", "]">>), Q(MethodF), LitNull }

TokenCases ==
  { RawCase("nonhex", t) : t \in NonHexTokens }
  \cup { RawCase("nonutf8", HexEncode(b)) : b \in NonUtf8Bytes }
  \cup { RawCase("nonjson", HexEncode(t)) : t \in NonJsonTexts }
  \cup { RawCase("nonobject", HexEncode(t)) : t \in NonObjectTexts }
  \cup { RecordCase("object", m, id, body, exp) :
           m \in MethodFrags, id \in IdFrags, body \in BodyFrags, exp \in ExpireFrags }
  \cup { RecordCase(shape, m, Absent, Absent, Absent) :
           shape \in {"absent", "number"}, m \in MethodFrags }

\* the case of a token that pack_message produced
PackedCase(token) == RawCase("packed", token)

NoCase == RawCase("none", <<>>)

----------------------------------------------------------------------------
(* The state of one run of the program.                                    *)
(*   cmd        the entry point that runs: parse_params, generate_message  *)
(*              or call_contract_with_msg                                  *)
(*   pc         the position in it                                         *)
(*   params_vec, abi, method   the arguments of parse_params; method is    *)
(*              also the method of generate_message                        *)
(*   msg        what prepare_message returned to generate_message          *)
(*   str_msg    the token: printed by generate_message, read by            *)
(*              call_contract_with_msg                                     *)
(*   token_case how the token read was built                               *)
(*   unpacked   what unpack_message returned                               *)
(*   params     what decode_call_parameters returned                       *)
(*   shown      what the run printed, in order                             *)
(*   sent       the calls of process_message, in order                     *)
(*   result     what the entry point returned                              *)

VARIABLES cmd, pc, params_vec, abi, method, msg, str_msg, token_case,
          unpacked, params, shown, sent, result

vars == <<cmd, pc, params_vec, abi, method, msg, str_msg, token_case,
          unpacked, params, shown, sent, result>>

NotRun == [kind |-> "NotRun", val |-> <<>>, err |-> <<>>]

\* the variables a fresh run starts with, whatever its command
Fresh ==
  /\ pc = "start"
  /\ unpacked = NotRun
  /\ params = NotRun
  /\ shown = <<>>
  /\ sent = <<>>
  /\ result = NotRun

InitParse ==
  /\ cmd = "parse_params"
  /\ params_vec \in ArgLists
  /\ abi \in Abis
  /\ method \in {MethodF, MethodG, MethodH, MethodK, MethodAbsent}
  /\ msg = NotRun /\ str_msg = <<>> /\ token_case = NoCase
  /\ Fresh

InitGenerate ==
  /\ cmd = "generate_message"
  /\ method \in {MethodF, MethodOdd}
  /\ params_vec = <<>> /\ abi = Ok(AbiFunctions)
  /\ msg = NotRun /\ str_msg = <<>> /\ token_case = NoCase
  /\ Fresh

InitCall ==
  /\ cmd = "call_contract_with_msg"
  /\ token_case \in TokenCases
  /\ str_msg = token_case.token
  /\ params_vec = <<>> /\ abi = Ok(AbiFunctions) /\ method = <<>>
  /\ msg = NotRun
  /\ Fresh

Init == InitParse \/ InitGenerate \/ InitCall

\* the run ends with r
Return(r) == pc' = "done" /\ result' = r

----------------------------------------------------------------------------
(* parse_params                                                            *)

ParseParams ==
  /\ cmd = "parse_params" /\ pc = "start"
  /\ Return(parse_params(params_vec, abi, method))
  /\ UNCHANGED <<cmd, params_vec, abi, method, msg, str_msg, token_case,
                 unpacked, params, shown, sent>>

----------------------------------------------------------------------------
(* generate_message                                                        *)

\* TonClient::default, TonAddress::from_str and lifetime + now(): the sum
\* is a u32 addition, which panics on overflow in a build with overflow
\* checks and wraps in one without
GenerateSetup ==
  /\ cmd = "generate_message" /\ pc = "start"
  /\ \E outcome \in {"ok", "client", "address", "overflow"} :
       \/ /\ outcome = "ok"
          /\ pc' = "prepare" /\ UNCHANGED result
       \/ /\ outcome = "client"
          /\ Return(Err(<<"ClientError">>))
       \/ /\ outcome = "address"
          /\ Return(Err(<<"AddressError">>))
       \/ /\ outcome = "overflow"
          /\ \/ Return(Panic("lifetime + now()"))
             \/ pc' = "prepare" /\ UNCHANGED result
  /\ UNCHANGED <<cmd, params_vec, abi, method, msg, str_msg, token_case,
                 unpacked, params, shown, sent>>

\* prepare_message: the key pair is loaded and the client builds the message
PrepareMessage ==
  /\ cmd = "generate_message" /\ pc = "prepare"
  /\ \/ \E e \in Envelopes :
          /\ msg' = Ok(e)
          /\ pc' = "pack" /\ UNCHANGED result
     \/ \E e \in {Err(<<"KeyError">>), Err(<<"ClientError">>)} :
          /\ msg' = e
          /\ Return(e)
  /\ UNCHANGED <<cmd, params_vec, abi, method, str_msg, token_case,
                 unpacked, params, shown, sent>>

\* print_encoded_message
Printed(m) == <<"MessageId", m.message_id, m.expire>>

\* print_encoded_message, pack_message, the token printed as text and as a
\* QR code; print_qr(..).unwrap() panics when the code cannot be made
PackAndPrint ==
  /\ cmd = "generate_message" /\ pc = "pack"
  /\ str_msg' = pack_message(msg.val, method)
  /\ shown' = shown \o <<Printed(msg.val), <<"Message", str_msg'>>>>
  /\ \/ Return(Ok(<<>>))
     \/ Return(Panic("print_qr(..).unwrap()"))
  /\ UNCHANGED <<cmd, params_vec, abi, method, msg, token_case,
                 unpacked, params, sent>>

\* the printed token is given to a run of call_contract_with_msg
Transport ==
  /\ cmd = "generate_message" /\ pc = "done" /\ str_msg # <<>>
  /\ cmd' = "call_contract_with_msg"
  /\ token_case' = PackedCase(str_msg)
  /\ pc' = "start"
  /\ unpacked' = NotRun /\ params' = NotRun
  /\ shown' = <<>> /\ sent' = <<>> /\ result' = NotRun
  /\ UNCHANGED <<params_vec, abi, method, msg, str_msg>>

----------------------------------------------------------------------------
(* call_contract_with_msg                                                  *)

CreateClient ==
  /\ cmd = "call_contract_with_msg" /\ pc = "start"
  /\ \/ pc' = "unpack" /\ UNCHANGED result
     \/ Return(Err(<<"ClientError">>))
  /\ UNCHANGED <<cmd, params_vec, abi, method, msg, str_msg, token_case,
                 unpacked, params, shown, sent>>

UnpackMessage ==
  /\ cmd = "call_contract_with_msg" /\ pc = "unpack"
  /\ unpacked' = unpack_message(str_msg)
  /\ IF unpacked'.kind = "Ok" THEN pc' = "print" /\ UNCHANGED result
     ELSE Return(unpacked')
  /\ UNCHANGED <<cmd, params_vec, abi, method, msg, str_msg, token_case,
                 params, shown, sent>>

PrintEncodedMessage ==
  /\ cmd = "call_contract_with_msg" /\ pc = "print"
  /\ shown' = Append(shown, Printed(unpacked.val[1]))
  /\ pc' = "decode"
  /\ UNCHANGED <<cmd, params_vec, abi, method, msg, str_msg, token_case,
                 unpacked, params, sent, result>>

\* what decode_call_parameters can return: the two unwraps panic, the BOC
\* cannot be written, the client rejects the body, or the client gives the
\* function and its arguments
DecodeOutcomes ==
  { Panic("deserialize_message(..).unwrap()"), Panic("body().unwrap()"),
    Err(<<"BocError">>), Err(<<"BodyDecodeError">>),
    Ok(<<MethodF, B(<<"{", "}">>)>>), Ok(<<MethodG, B(<<"{", "}">>)>>) }

DecodeCallParameters ==
  /\ cmd = "call_contract_with_msg" /\ pc = "decode"
  /\ \E o \in DecodeOutcomes :
       /\ params' = o
       /\ IF o.kind = "Ok" THEN pc' = "show" /\ UNCHANGED result ELSE Return(o)
  /\ UNCHANGED <<cmd, params_vec, abi, method, msg, str_msg, token_case,
                 unpacked, shown, sent>>

ShowCall ==
  /\ cmd = "call_contract_with_msg" /\ pc = "show"
  /\ shown' = Append(shown, <<"Calling", params.val[1], params.val[2]>>)
  /\ pc' = "process"
  /\ UNCHANGED <<cmd, params_vec, abi, method, msg, str_msg, token_case,
                 unpacked, params, sent, result>>

\* a variant that submits under the function name decode_call_parameters gave
ProcessMessageDecodedName ==
  /\ cmd = "call_contract_with_msg" /\ pc = "process"
  /\ sent' = Append(sent, [msg |-> unpacked.val[1], method |-> params.val[1]])
  /\ \/ /\ Return(Ok(<<>>))
        /\ \E output \in {"null", "value"} :
             shown' = shown \o (IF output = "null" THEN <<<<"Succeded">>>>
                                ELSE <<<<"Succeded">>, <<"Result">>>>)
     \/ /\ Return(Err(<<"Failed">>))
        /\ UNCHANGED shown
  /\ UNCHANGED <<cmd, params_vec, abi, method, msg, str_msg, token_case,
                 unpacked, params>>

ProcessMessage ==
  /\ cmd = "call_contract_with_msg" /\ pc = "process"
  /\ sent' = Append(sent, [msg |-> unpacked.val[1], method |-> unpacked.val[2]])
  /\ \/ /\ Return(Ok(<<>>))
        /\ \E output \in {"null", "value"} :
             shown' = shown \o (IF output = "null" THEN <<<<"Succeded">>>>
                                ELSE <<<<"Succeded">>, <<"Result">>>>)
     \/ /\ Return(Err(<<"Failed">>))
        /\ UNCHANGED shown
  /\ UNCHANGED <<cmd, params_vec, abi, method, msg, str_msg, token_case,
                 unpacked, params>>

----------------------------------------------------------------------------

Next ==
  \/ ParseParams
  \/ GenerateSetup
  \/ PrepareMessage
  \/ PackAndPrint
  \/ Transport
  \/ CreateClient
  \/ UnpackMessage
  \/ PrintEncodedMessage
  \/ DecodeCallParameters
  \/ ShowCall
  \/ ProcessMessage

Spec == Init /\ [][Next]_vars

----------------------------------------------------------------------------
(* Properties.  The definitions below state what is checked of the model;  *)
(* they read the state and do not model code.                              *)

CallRun == cmd = "call_contract_with_msg"
Unpacked == CallRun /\ unpacked.kind # "NotRun"

\* a run of parse_params that ended, of a list that is not one element,
\* with an ABI that parses and declares the method
Coerced ==
  /\ cmd = "parse_params" /\ pc = "done"
  /\ Len(params_vec) # 1
  /\ abi.kind = "Ok"
  /\ \E f \in abi.val : f.name = method

Declared == (CHOOSE f \in abi.val : f.name = method).inputs

DeclaredNames == {Declared[j].name : j \in 1..Len(Declared)}

\* the argument object of a successful coercion, read back from its text
ArgumentObject == FromStr(result.val).val

\* C1: the run that reads a token pack_message produced gets from
\* unpack_message the envelope (message_id, message_body, expire) and the
\* method name that were packed.
C1_RoundTrip ==
  (Unpacked /\ token_case.class = "packed") => unpacked = Ok(<<msg.val, method>>)

\* C1 witness: a packed envelope with quote and backslash in its id, a
\* binary body and the largest expire has been unpacked.
C1_Witness ==
  /\ Unpacked /\ token_case.class = "packed" /\ unpacked.kind = "Ok"
  /\ msg.val.message_id = <<Ord("DQUOTE"), Ord("BSLASH"), 10>>
  /\ msg.val.message_body = <<255, 0>>
  /\ msg.val.expire = Some(U32Max)
  /\ method = MethodOdd

\* C2: with a list that is not one element and an ABI that parses but does
\* not declare the method, parse_params returns the failure SchemaError.
C2_AbsentMethodIsSchemaError ==
  ( /\ cmd = "parse_params" /\ pc = "done"
    /\ Len(params_vec) # 1
    /\ abi.kind = "Ok"
    /\ ~ \E f \in abi.val : f.name = method )
  => result = Err(<<"SchemaError">>)

\* C3: unpack_message returns a success value or a typed failure on every
\* token; it never aborts.
C3_UnpackTotal == Unpacked => unpacked.kind \in {"Ok", "Err"}

\* whether a token is --name for a name that the method does not declare
UnknownName(t) ==
  /\ Len(t) > 2 /\ t[1] = Ord("-") /\ t[2] = Ord("-")
  /\ SubSeq(t, 3, Len(t)) \notin DeclaredNames

\* the keys of a successful coercion are the declared names, one entry each
ExactKeys ==
  /\ ArgumentObject.t = "obj"
  /\ {ArgumentObject.o[i][1] : i \in 1..Len(ArgumentObject.o)} = DeclaredNames
  /\ Len(ArgumentObject.o) = Cardinality(DeclaredNames)

\* C4 as stated: a successful coercion has exactly the declared names as
\* keys, and a list with a --name token of an undeclared name is rejected.
C4_UnknownNamesRejected ==
  Coerced =>
    /\ result.kind = "Ok" => ExactKeys
    /\ (\E i \in 1..Len(params_vec) : UnknownName(params_vec[i])) => result.kind # "Ok"

\* C4 as amended: a successful coercion of a list that is not one element
\* has exactly the declared names as keys, one entry each.
C4_ExactKeys == (Coerced /\ result.kind = "Ok") => ExactKeys

\* C4 witness: a coercion succeeded on a list that holds a --name token of
\* an undeclared name.
C4_Witness ==
  /\ Coerced /\ result.kind = "Ok"
  /\ Len(Declared) = 2
  /\ \E i \in 1..Len(params_vec) : UnknownName(params_vec[i])

\* whether the list holds the token --name
HasDashDash(name) == \E i \in 1..Len(params_vec) : params_vec[i] = B(<<"-", "-">>) \o name

\* whether token t is name once its leading dashes are removed
Names(t, name) ==
  \E k \in 0..Len(t) :
    /\ \A d \in 1..k : t[d] = Ord("-")
    /\ SubSeq(t, k + 1, Len(t)) = name
    /\ (name # <<>> => name[1] # Ord("-"))

\* whether the list holds a token that names the parameter
HasToken(name) == \E i \in 1..Len(params_vec) : Names(params_vec[i], name)

Missing(input) == Err(<<"MissingArgument", input.name, input.kind>>)

\* C5 as stated: when the list holds no --x token for a declared parameter
\* x, the coercion fails with MissingArgument(x, kind of x).
C5_NoDashDashIsMissing ==
  Coerced =>
    \A j \in 1..Len(Declared) :
      ~HasDashDash(Declared[j].name) => result = Missing(Declared[j])

\* the failure is one of a parameter declared before the j-th
EarlierFailure(j) ==
  /\ result.kind = "Err"
  /\ \/ result.err[1] = "ConversionError"
     \/ /\ result.err[1] \in {"MissingArgument", "MissingArgumentValue"}
        /\ \E e \in 1..(j - 1) : result.err[2] = Declared[e].name

\* C5 as amended: when no token of the list is x once its leading dashes
\* are removed, the coercion fails: with MissingArgument(x, kind of x), or
\* with the failure of a parameter declared before x; with
\* MissingArgument(x, kind of x) when x is the first declared parameter.
C5_NoTokenIsMissing ==
  Coerced =>
    \A j \in 1..Len(Declared) :
      ~HasToken(Declared[j].name) =>
        /\ result = Missing(Declared[j]) \/ EarlierFailure(j)
        /\ j = 1 => result = Missing(Declared[j])

\* C5 witness: the second declared parameter has no token, the first was
\* coerced, and the coercion failed with MissingArgument of the second.
C5_Witness ==
  /\ Coerced /\ Len(Declared) = 2
  /\ ~HasToken(Declared[2].name) /\ HasToken(Declared[1].name)
  /\ Len(params_vec) >= 2
  /\ result = Missing(Declared[2])

\* the value string given for a parameter: the token after the first one
\* that names it
ValueGiven(name) ==
  LET first == CHOOSE i \in 1..Len(params_vec) :
                 /\ Names(params_vec[i], name)
                 /\ \A j \in 1..(i - 1) : ~Names(params_vec[j], name)
  IN  params_vec[first + 1]

IsInteger(kind) == kind.k \in {"Uint", "Int"}
IsUintArray(kind) == kind.k = "Array" /\ kind.elem = "Uint"

\* the integer coercion as C6 states it: the quotes around the value are
\* stripped and one trailing T is removed before the conversion
SingleSuffixRule(v) ==
  LET q == TrimMatches(v, Ord("DQUOTE"))
  IN  IF q # <<>> /\ q[Len(q)] = Ord("T") THEN convert_token(SubSeq(q, 1, Len(q) - 1))
      ELSE Ok(q)

\* the first declared parameter has a value in the list
FirstGiven == Coerced /\ Len(params_vec) >= 2 /\ Names(params_vec[1], Declared[1].name)

\* C6: an integer parameter is coerced to its value without the quotes
\* around it when that does not end with T, and else to the conversion of
\* that value with its one trailing T removed, a ConversionError being
\* returned.
C6_SingleSuffixRemoved ==
  (FirstGiven /\ IsInteger(Declared[1].kind)) =>
    LET expected == SingleSuffixRule(params_vec[2])
    IN  /\ expected.kind = "Err" => result = expected
        /\ expected.kind = "Ok" =>
             /\ result.kind # "Err" \/ Len(Declared) > 1
             /\ result.kind = "Ok" =>
                  JIndex(ArgumentObject, Declared[1].name) = JStr(expected.val)

\* the delimiters of an array value
Delims == {Ord(","), Ord("["), Ord("]")}

\* the indices where a fragment of v starts, and where the one that starts at i ends
FragStarts(v) == {i \in 1..Len(v) : v[i] \notin Delims /\ (i = 1 \/ v[i - 1] \in Delims)}
FragEnd(v, i) ==
  CHOOSE j \in i..Len(v) :
    /\ \A k \in i..j : v[k] \notin Delims
    /\ j = Len(v) \/ v[j + 1] \in Delims

\* the non-empty fragments of v between delimiters, in their order
Fragments(v) ==
  [n \in 1..Cardinality(FragStarts(v)) |->
     LET i == CHOOSE i \in FragStarts(v) : Cardinality({j \in FragStarts(v) : j < i}) = n - 1
     IN  SubSeq(v, i, FragEnd(v, i))]

AllCoerce(frags) == \A n \in 1..Len(frags) : parse_integer_param(frags[n]).kind = "Ok"

\* C7: in a successful coercion, a parameter that is an array of unsigned
\* integers holds the integer coercions of the non-empty fragments of its
\* value between the delimiters , [ ] in their order, and a parameter that
\* is neither an integer nor such an array holds its value string
\* unchanged; a fragment of the first parameter that does not coerce makes
\* the coercion fail.
C7_ArraySplit ==
  Coerced =>
    /\ result.kind = "Ok" =>
         \A j \in 1..Len(Declared) :
           LET given == ValueGiven(Declared[j].name)
               value == JIndex(ArgumentObject, Declared[j].name)
           IN  /\ IsUintArray(Declared[j].kind) =>
                    value = JArr([n \in 1..Len(Fragments(given)) |->
                                    JStr(parse_integer_param(Fragments(given)[n]).val)])
               /\ (~IsUintArray(Declared[j].kind) /\ ~IsInteger(Declared[j].kind)) =>
                    value = JStr(given)
    /\ (FirstGiven /\ IsUintArray(Declared[1].kind)
          /\ ~AllCoerce(Fragments(params_vec[2]))) => result = Err(<<"ConversionError">>)

\* C7 witness: the bracketed value ["4",-3] was coerced for an array of
\* unsigned integers to the fragments 4 and -3, the empty fragments before
\* [ and after ] being discarded.
C7_Witness ==
  /\ Coerced /\ result.kind = "Ok" /\ method = MethodG
  /\ ValueGiven(NameX) = B(<<"[", "DQUOTE", "4", "DQUOTE", ",", "-", "3", "]">>)
  /\ JIndex(ArgumentObject, NameX) = JArr(<<JStr(B(<<"4">>)), JStr(B(<<"-", "3">>))>>)

\* C8: unpack_message fails with the failure of the first stage that
\* fails, the stages being hex-decode, text-decode, parse, and the fields
\* method, msg.message_id and msg.message_body in this order.
C8_StagedRejection ==
  Unpacked =>
    /\ token_case.class = "nonhex" => unpacked = Err(<<"MalformedToken">>)
    /\ token_case.class = "nonutf8" => unpacked = Err(<<"CorruptToken">>)
    /\ token_case.class = "nonjson" => unpacked = Err(<<"DecodeError">>)
    /\ token_case.class = "nonobject" => unpacked = Err(<<"FieldMissing", "method">>)
    /\ token_case.class = "record" =>
         /\ ~token_case.m.str => unpacked = Err(<<"FieldMissing", "method">>)
         /\ (token_case.m.str /\ ~token_case.id.str)
              => unpacked = Err(<<"FieldMissing", "message_id">>)
         /\ (token_case.m.str /\ token_case.id.str /\ ~token_case.body.str)
              => unpacked = Err(<<"FieldMissing", "message_body">>)

\* C8 witness: a record without method, message_id and message_body was
\* rejected for its method.
C8_Witness ==
  /\ Unpacked /\ token_case.class = "record" /\ token_case.msgshape = "object"
  /\ ~token_case.m.p /\ ~token_case.id.p /\ ~token_case.body.p
  /\ unpacked = Err(<<"FieldMissing", "method">>)

\* the stage of call_contract_with_msg that failed, if any
StageFailed ==
  \/ pc = "done" /\ unpacked.kind = "NotRun"
  \/ unpacked.kind \in {"Err", "Panic"}
  \/ params.kind \in {"Err", "Panic"}

\* C9: process_message is called only after unpack_message and
\* decode_call_parameters succeeded and the call was shown, with the
\* envelope and the method unpack_message returned; when the client
\* creation, the unpacking or the decoding fails, the run ends with that
\* failure and process_message is not called.
C9_SubmitAfterDecode ==
  CallRun =>
    /\ sent # <<>> =>
         /\ unpacked.kind = "Ok" /\ params.kind = "Ok"
         /\ Len(shown) >= 2
         /\ shown[1] = Printed(unpacked.val[1])
         /\ shown[2] = <<"Calling", params.val[1], params.val[2]>>
         /\ sent = << [msg |-> unpacked.val[1], method |-> unpacked.val[2]] >>
    /\ StageFailed =>
         /\ sent = <<>>
         /\ pc = "done"
         /\ result = (IF unpacked.kind = "NotRun" THEN Err(<<"ClientError">>)
                      ELSE IF unpacked.kind # "Ok" THEN unpacked ELSE params)
    /\ (pc = "done" /\ ~StageFailed) => Len(sent) = 1

\* C9 witness: a message whose decoded function differs from the method of
\* the token was submitted.
C9_Witness ==
  /\ CallRun /\ pc = "done" /\ Len(sent) = 1 /\ result.kind = "Ok"
  /\ params.val[1] # unpacked.val[2]

\* v mod 2^32 of the decimal digits of v, as two 16-bit limbs
RECURSIVE DecMod32(_, _)
DecMod32(d, acc) ==
  IF d = <<>> THEN acc
  ELSE LET lo == acc[1] * 10 + (Head(d) - Ord("0"))
           hi == acc[2] * 10 + (lo \div Limb)
       IN  DecMod32(Tail(d), <<lo % Limb, hi % Limb>>)

\* the digits of 2^64
TwoTo64 == B(<<"1", "8", "4", "4", "6", "7", "4", "4", "0", "7", "3", "7", "0", "9", "5", "5", "1", "6", "1", "6">>)

\* whether the literal d (no leading zero) is below 2^64
Below64(d) == Len(d) < Len(TwoTo64) \/ (Len(d) = Len(TwoTo64) /\ LexLess(d, TwoTo64))

\* a record whose method, message_id and message_body are valid
ValidFields ==
  /\ token_case.class = "record" /\ token_case.msgshape = "object"
  /\ token_case.m.str /\ token_case.id.str /\ token_case.body.hex

====
